---- MODULE Spec2Model ----
(***************************************************************************)
(* crossterm-display: the double-buffered, diff-based TerminalDisplay of   *)
(* src/src/lib.rs.  The program state is the display's fields (w, h,       *)
(* chars, prev_chars); the sink (stdout) is modelled by the sequence of    *)
(* commands it accepted during the last call.  Grids are sequences of rows *)
(* (1-based in TLA+); the coordinates carried by commands and taken by     *)
(* write are the program's 0-based ones.                                   *)
(***************************************************************************)
EXTENDS Integers, Sequences, FiniteSets

VARIABLES
    w,           \* TerminalDisplay.w
    h,           \* TerminalDisplay.h
    chars,       \* TerminalDisplay.chars: h rows of w cells
    prev_chars,  \* TerminalDisplay.prev_chars: None or Some(grid)
    out,         \* commands the sink accepted during the last call, in order
    call,        \* history: the last call, its arguments and result, and what
                 \* it started from
    baseline,    \* history: what set the comparison baseline last (new, resize
                 \* or a successful render), the frame rendered last since, and
                 \* whether a watched sink has cut a render short since the
                 \* last new or resize, after accepting some of its commands
    nwrites,     \* number of write calls so far (bounds the exploration)
    shown        \* the sink: the cell last sent to each coordinate of the terminal

vars == <<w, h, chars, prev_chars, out, call, baseline, nwrites, shown>>

-----------------------------------------------------------------------------
(* Bounds of the exploration *)

\* the terminal is at most MaxW wide and MaxH high, and has at most MaxCells
\* cells (w * h)
MaxW == 2
MaxH == 2
MaxCells == 4
\* a caller writes at most MaxWrites cells in all
MaxWrites == 1
\* a failing sink accepts at most MaxAccepted commands of a call before it fails
MaxAccepted == 5

\* the sizes of a terminal
Sizes == { s \in (0..MaxW) \X (0..MaxH) : s[1] * s[2] <= MaxCells }

-----------------------------------------------------------------------------
(* Option<T> *)

None == <<>>
Some(v) == <<v>>
IsSome(o) == Len(o) = 1
Unwrap(o) == o[1]

-----------------------------------------------------------------------------
(* Cell *)

Colors == {"Black", "White", "Red"}

\* the colours a caller clears with
ClearColors == {"Black", "Red"}
Attributes == {"Reset", "Bold"}

Cell(ch, fg, bg, attr) == [ch |-> ch, fg |-> fg, bg |-> bg, attr |-> attr]

\* a mutant of cell_eq: the comparison forgets the attribute
cell_eq_no_attr(a, b) == a.ch = b.ch /\ a.fg = b.fg /\ a.bg = b.bg

\* #[derive(PartialEq)]: all four fields
cell_eq(a, b) == a.ch = b.ch /\ a.fg = b.fg /\ a.bg = b.bg /\ a.attr = b.attr

\* a mutant of empty_colored: the colour is dropped
empty_colored_black(color) == Cell(32, "White", "Black", "Reset")

empty_colored(color) == Cell(32, "White", color, "Reset")

empty == empty_colored("Black")

\* the cells a caller writes: one cell differing from the empty cell in the
\* character only, one in the foreground only, one in the attribute only
\* (a cell differing in the background only is empty_colored("Red"))
WriteCells ==
    { Cell(35, "White", "Black", "Reset"),
      Cell(32, "Red", "Black", "Reset"),
      Cell(32, "White", "Black", "Bold") }

-----------------------------------------------------------------------------
(* Sink commands *)

MoveTo(x, y) == [cmd |-> "MoveTo", x |-> x, y |-> y]
SetAttribute(a) == [cmd |-> "SetAttribute", attr |-> a]
SetForegroundColor(c) == [cmd |-> "SetForegroundColor", color |-> c]
SetBackgroundColor(c) == [cmd |-> "SetBackgroundColor", color |-> c]
WriteAll(ch) == [cmd |-> "WriteAll", ch |-> ch]
Flush == [cmd |-> "Flush"]

\* a mutant of Cell_render: the sink is flushed after each cell
Cell_render_flushing(cell) ==
    << SetAttribute(cell.attr),
       SetForegroundColor(cell.fg),
       SetBackgroundColor(cell.bg),
       WriteAll(cell.ch),
       Flush >>

\* a mutant of Cell_render: the two colours are set in the other order
Cell_render_bg_first(cell) ==
    << SetAttribute(cell.attr),
       SetBackgroundColor(cell.bg),
       SetForegroundColor(cell.fg),
       WriteAll(cell.ch) >>

\* Cell::render: the four commands of one cell
Cell_render(cell) ==
    << SetAttribute(cell.attr),
       SetForegroundColor(cell.fg),
       SetBackgroundColor(cell.bg),
       WriteAll(cell.ch) >>

-----------------------------------------------------------------------------
(* The sink: a terminal that keeps, for each coordinate, the cell last sent
   to it.  MoveTo places the cursor, the three Set commands set the style of
   what is written next, WriteAll puts the character at the cursor in that
   style and advances the cursor by one column; Flush shows nothing new. *)

Coords == (0..(MaxW - 1)) \X (0..(MaxH - 1))

\* a coordinate whose content is not known
Unknown == [ch |-> -1, fg |-> "?", bg |-> "?", attr |-> "?"]

\* a cursor whose position is not known, a style not yet set
NoCursor == << -1, -1 >>
NoStyle == [attr |-> "?", fg |-> "?", bg |-> "?"]

\* a terminal of which nothing is known
Blind == [c \in Coords |-> Unknown]

\* the terminal after one command: its cells, cursor and style
sink_step(t, c) ==
    CASE c.cmd = "MoveTo" -> [t EXCEPT !.cur = << c.x, c.y >>]
      [] c.cmd = "SetAttribute" -> [t EXCEPT !.style.attr = c.attr]
      [] c.cmd = "SetForegroundColor" -> [t EXCEPT !.style.fg = c.color]
      [] c.cmd = "SetBackgroundColor" -> [t EXCEPT !.style.bg = c.color]
      [] c.cmd = "WriteAll" ->
           IF t.cur = NoCursor THEN t
           ELSE [cells |-> IF t.cur \in Coords
                           THEN [t.cells EXCEPT ![t.cur] =
                                   [ch |-> c.ch, fg |-> t.style.fg,
                                    bg |-> t.style.bg, attr |-> t.style.attr]]
                           ELSE t.cells,
                 cur |-> << t.cur[1] + 1, t.cur[2] >>,
                 style |-> t.style]
      [] OTHER -> t

\* the terminal after the commands cmds[i..]
RECURSIVE sink_run(_, _, _)
sink_run(t, cmds, i) ==
    IF i > Len(cmds) THEN t ELSE sink_run(sink_step(t, cmds[i]), cmds, i + 1)

\* what the terminal shows after the commands of one call; where the call
\* finds the cursor and the style is not known
sink_apply(cells, cmds) ==
    sink_run([cells |-> cells, cur |-> NoCursor, style |-> NoStyle], cmds, 1).cells

-----------------------------------------------------------------------------
(* TerminalDisplay *)

\* a mutant of init_chars: columns and rows are taken for each other
init_chars_transposed(ww, hh) == [y \in 1..ww |-> [x \in 1..hh |-> empty]]

\* vec![vec![Cell::empty(); w]; h]
init_chars(ww, hh) == [y \in 1..hh |-> [x \in 1..ww |-> empty]]

\* the marker of an index-out-of-bounds panic inside a command stream
Panic == [cmd |-> "Panic"]

\* a mutant of render_cell_delta: the cell emitted is the one of the
\* previous frame
render_cell_delta_old(prev, cell, x, y) ==
    IF y >= Len(prev) \/ x >= Len(prev[y + 1])
    THEN << Panic >>
    ELSE IF ~cell_eq(prev[y + 1][x + 1], cell)
         THEN << MoveTo(x, y) >> \o Cell_render(prev[y + 1][x + 1])
         ELSE << >>

\* render, the body of the inner loop when prev_chars is Some: the commands
\* for the cell at column x of row y (0-based); prev[y][x] is bounds-checked
render_cell_delta(prev, cell, x, y) ==
    IF y >= Len(prev) \/ x >= Len(prev[y + 1])
    THEN << Panic >>
    ELSE IF ~cell_eq(prev[y + 1][x + 1], cell)
         THEN << MoveTo(x, y) >> \o Cell_render(cell)
         ELSE << >>

\* a command stream that ended in a panic
panicked(cmds) == Len(cmds) > 0 /\ cmds[Len(cmds)].cmd = "Panic"

\* render, the inner loop when prev_chars is Some: columns x.. of row y
\* (a panic ends the loop)
RECURSIVE render_row_delta(_, _, _, _)
render_row_delta(prev, row, x, y) ==
    IF x >= Len(row)
    THEN << >>
    ELSE LET c == render_cell_delta(prev, row[x + 1], x, y)
         IN  IF panicked(c) THEN c
             ELSE c \o render_row_delta(prev, row, x + 1, y)

\* render, the loop over the cells of a row when prev_chars is None
RECURSIVE render_row_cells(_, _)
render_row_cells(row, x) ==
    IF x >= Len(row)
    THEN << >>
    ELSE Cell_render(row[x + 1]) \o render_row_cells(row, x + 1)

\* a mutant of render_row_full: the cursor is left where it was
render_row_full_no_move(row, y) == render_row_cells(row, 0)

\* render, the else branch: one cursor move, then the row
render_row_full(row, y) == << MoveTo(0, y) >> \o render_row_cells(row, 0)

\* render, the body of the outer loop: row y of grid against prev
render_row(prev, row, y) ==
    IF IsSome(prev)
    THEN render_row_delta(Unwrap(prev), row, 0, y)
    ELSE render_row_full(row, y)

\* render, the outer loop: rows y.. of grid (a panic ends the loop)
RECURSIVE render_rows(_, _, _)
render_rows(prev, grid, y) ==
    IF y >= Len(grid)
    THEN << >>
    ELSE LET r == render_row(prev, grid[y + 1], y)
         IN  IF panicked(r) THEN r
             ELSE r \o render_rows(prev, grid, y + 1)

\* every command render sends when the sink never fails: the rows, then one
\* flush; or the commands sent before a panic, then the panic marker
render_cmds(prev, grid) ==
    LET r == render_rows(prev, grid, 0)
    IN  IF panicked(r) THEN r ELSE r \o << Flush >>

\* what the sink accepted of cmds when it fails at its (k+1)-th command
\* (k = -1: the sink never fails)
accepted(cmds, k) == IF k = -1 THEN cmds ELSE SubSeq(cmds, 1, k)

\* the coordinates inside both grids
overlap(old, grid) ==
    IF ~IsSome(old) THEN {}
    ELSE LET o == Unwrap(old)
         IN  UNION { { <<x - 1, y - 1>> :
                         x \in { i \in 1..Len(grid[y]) : i <= Len(o[y]) } } :
                     y \in { j \in 1..Len(grid) : j <= Len(o) } }

\* of the coordinates inside both grids, how many hold different cells and
\* how many hold the same cell
compare(old, grid) ==
    LET d == { c \in overlap(old, grid) :
                 grid[c[2] + 1][c[1] + 1] # Unwrap(old)[c[2] + 1][c[1] + 1] }
    IN  [ndiff |-> Cardinality(d),
         nsame |-> Cardinality(overlap(old, grid)) - Cardinality(d)]

\* no frame to compare with
Incomparable == [ndiff |-> -1, nsame |-> -1]

\* the record of a call: its name, arguments and result, and, of the state it
\* started from, the origin of the baseline, a comparison of frames (see
\* resize and render), and whether it repeats the call before it (the same
\* operation with the same arguments, both returning normally)
Called(op, args, res, cmp) ==
    [op |-> op, args |-> args, res |-> res, origin |-> baseline.origin,
     ndiff |-> cmp.ndiff, nsame |-> cmp.nsame,
     again |-> (call.op = op /\ call.args = args /\ call.res = "ok" /\ res = "ok")]

\* a panic unwinds out of the caller: no call follows it
Alive == call.res # "panic"

----
\* TerminalDisplay::new, with terminal::size() returning (w, h)

Init ==
    /\ \E s \in Sizes : w = s[1] /\ h = s[2]
    /\ chars = init_chars(w, h)
    /\ prev_chars = None
    /\ out = << >>
    /\ call = [op |-> "new", args |-> <<w, h>>, res |-> "ok", origin |-> "new",
               ndiff |-> -1, nsame |-> -1, again |-> FALSE]
    /\ baseline = [origin |-> "new", frame |-> None, cut |-> FALSE]
    /\ nwrites = 0
    /\ shown = Blind

----
\* TerminalDisplay::resize

\* a mutant of resize_prev: the old baseline survives the resize
resize_prev_kept == prev_chars

\* self.prev_chars = None
resize_prev == None

resize(ww, hh) ==
    /\ Alive
    /\ prev_chars' = resize_prev
    /\ chars' = init_chars(ww, hh)
    /\ w' = ww
    /\ h' = hh
    /\ out' = << >>
    \* compared: the new chars with the frame this resize discards
    /\ call' = Called("resize", <<ww, hh>>, "ok",
                      IF baseline.origin = "render"
                      THEN compare(baseline.frame, init_chars(ww, hh))
                      ELSE Incomparable)
    /\ baseline' = [origin |-> "resize", frame |-> None, cut |-> FALSE]
    \* resize answers a resize of the terminal window: what the terminal
    \* shows afterwards is not known
    /\ shown' = Blind
    /\ UNCHANGED nwrites

----
\* TerminalDisplay::write

\* a mutant of write_in_bounds: the last column and row are off by one
write_in_bounds_off_by_one(x, y) ==
    /\ y <= Len(chars)
    /\ x <= (IF y < Len(chars) THEN Len(chars[y + 1]) ELSE w)

\* the two index checks of self.chars[y][x]
write_in_bounds(x, y) == y < Len(chars) /\ x < Len(chars[y + 1])

\* a mutant of write_chars: row and column are swapped
write_chars_swapped(x, y, cell) ==
    IF x < Len(chars) /\ y < Len(chars[x + 1])
    THEN [chars EXCEPT ![x + 1][y + 1] = cell]
    ELSE chars

\* self.chars[y][x] = ch
write_chars(x, y, cell) ==
    IF y < Len(chars) /\ x < Len(chars[y + 1])
    THEN [chars EXCEPT ![y + 1][x + 1] = cell]
    ELSE chars

write(x, y, cell) ==
    /\ Alive
    /\ nwrites < MaxWrites
    /\ nwrites' = nwrites + 1
    /\ IF write_in_bounds(x, y)
       THEN /\ chars' = write_chars(x, y, cell)
            /\ call' = Called("write", <<x, y, cell>>, "ok", Incomparable)
       ELSE /\ chars' = chars
            /\ call' = Called("write", <<x, y, cell>>, "panic", Incomparable)
    /\ out' = << >>
    /\ UNCHANGED <<w, h, prev_chars, baseline, shown>>

----
\* TerminalDisplay::clear and TerminalDisplay::clear_colored

\* a mutant of fill: each row is refilled one cell longer than it was
fill_growing(cell) ==
    [y \in 1..Len(chars) |-> [x \in 1..(Len(chars[y]) + 1) |-> cell]]

\* a mutant of fill: the last row is left as it was
fill_but_last_row(cell) ==
    [y \in 1..Len(chars) |->
        IF y = Len(chars) /\ y > 1 THEN chars[y]
        ELSE [x \in 1..Len(chars[y]) |-> cell]]

\* for row in self.chars.iter_mut() { row.fill(cell) }
fill(cell) == [y \in 1..Len(chars) |-> [x \in 1..Len(chars[y]) |-> cell]]

clear ==
    /\ Alive
    /\ chars' = fill(empty)
    /\ out' = << >>
    /\ call' = Called("clear", << >>, "ok", Incomparable)
    /\ UNCHANGED <<w, h, prev_chars, baseline, nwrites, shown>>

clear_colored(color) ==
    /\ Alive
    /\ chars' = fill(empty_colored(color))
    /\ out' = << >>
    /\ call' = Called("clear_colored", <<color>>, "ok", Incomparable)
    /\ UNCHANGED <<w, h, prev_chars, baseline, nwrites, shown>>

----
\* TerminalDisplay::render; the sink fails at its (k+1)-th command, or never

\* a mutant of render_prev: the buffers are rotated whatever the result
render_prev_always(res) == Some(chars)

\* a mutant of render_prev: chars is reset before it is saved
render_prev_blank(res) == IF res = "ok" THEN Some(init_chars(w, h)) ELSE prev_chars

\* self.prev_chars = Some(self.chars.clone()), reached only past every `?`
render_prev(res) == IF res = "ok" THEN Some(chars) ELSE prev_chars

\* a mutant of render_chars: the frame is kept for the next one
render_chars_kept(res) == chars

\* self.chars = Self::init_chars(self.w, self.h), reached only past every `?`
render_chars(res) == IF res = "ok" THEN init_chars(w, h) ELSE chars

\* compared by a render: chars with the frame rendered last, or, directly
\* after a resize, with the frame that resize discarded
render_compare ==
    IF baseline.origin = "render"
    THEN compare(baseline.frame, chars)
    ELSE IF call.op = "resize"
         THEN [ndiff |-> call.ndiff, nsame |-> call.nsame]
         ELSE Incomparable

\* render into a sink that accepts k commands and then fails (k = -1: it
\* accepts every command), k drawn from K; the terminal behind the sink is
\* watched, or it is left out of the picture (shown stays Blind)
render_into(K, watched) ==
    LET all == render_cmds(prev_chars, chars)
        p == panicked(all)
        cmds == IF p THEN SubSeq(all, 1, Len(all) - 1) ELSE all
        cmp == render_compare
    IN  /\ Alive
        /\ \E k \in K :
            LET res == IF k # -1 THEN "err" ELSE IF p THEN "panic" ELSE "ok"
            IN  /\ k < Len(cmds)
                /\ out' = accepted(cmds, k)
                /\ shown' = IF watched THEN sink_apply(shown, accepted(cmds, k))
                                       ELSE shown
                /\ prev_chars' = render_prev(res)
                /\ chars' = render_chars(res)
                /\ call' = Called("render", << >>, res, cmp)
                /\ baseline' = IF res = "ok"
                               THEN [origin |-> "render", frame |-> Some(chars),
                                     cut |-> baseline.cut]
                               ELSE [baseline EXCEPT
                                       !.cut = @ \/ (watched /\ res = "err" /\ k >= 1)]
        /\ UNCHANGED <<w, h, nwrites>>

\* the sink may fail at any command
Failing == (-1)..MaxAccepted

\* the sink never fails
Reliable == {-1}

\* render with a sink that may fail, the terminal behind it not watched
render == render_into(Failing, FALSE)

\* render with a sink that may fail, the terminal behind it watched
render_watched == render_into(Failing, TRUE)

\* render with a sink that never fails, the terminal behind it watched
render_reliable == render_into(Reliable, TRUE)

----
\* the calls a caller can make besides render
Calls ==
    \/ \E s \in Sizes : resize(s[1], s[2])
    \/ \E x \in 0..w, y \in 0..h, cell \in WriteCells : write(x, y, cell)
    \/ clear
    \/ \E color \in ClearColors : clear_colored(color)

Next ==
    \/ \E s \in Sizes : resize(s[1], s[2])
    \/ \E x \in 0..w, y \in 0..h, cell \in WriteCells : write(x, y, cell)
    \/ clear
    \/ \E color \in ClearColors : clear_colored(color)
    \/ render

Spec == Init /\ [][Next]_vars

\* the same program with the terminal behind the sink watched
NextWatched == Calls \/ render_watched

SpecWatched == Init /\ [][NextWatched]_vars

\* the same program with a sink that never fails, the terminal watched
NextReliable == Calls \/ render_reliable

SpecReliable == Init /\ [][NextReliable]_vars

-----------------------------------------------------------------------------
(* Vocabulary of the statements *)

\* the step is a call of op that ended in res
Did(op, res) == call'.op = op /\ call'.res = res

\* the default empty cell, and the empty cell of a background
EmptyCell == [ch |-> 32, fg |-> "White", bg |-> "Black", attr |-> "Reset"]
EmptyCellOn(color) == [ch |-> 32, fg |-> "White", bg |-> color, attr |-> "Reset"]

\* grid has hh rows of ww cells, each equal to cell
Filled(grid, ww, hh, cell) ==
    /\ Len(grid) = hh
    /\ \A y \in 1..hh : Len(grid[y]) = ww /\ \A x \in 1..ww : grid[y][x] = cell

\* two grids of the same shape
SameShape(a, b) ==
    /\ Len(a) = Len(b)
    /\ \A y \in 1..Len(a) : Len(a[y]) = Len(b[y])

\* some cell of grid is not the default empty cell
Drawn(grid) == \E y \in 1..Len(grid) : \E x \in 1..Len(grid[y]) : grid[y][x] # EmptyCell

\* the cursor moves and cell commands of a command sequence: all but the flushes
NotFlush(c) == c.cmd # "Flush"
Body(cmds) == SelectSeq(cmds, NotFlush)

\* cmds[i..i+3] emits cell
EmitsCell(cmds, i, cell) ==
    /\ i + 3 <= Len(cmds)
    /\ cmds[i] = [cmd |-> "SetAttribute", attr |-> cell.attr]
    /\ cmds[i + 1] = [cmd |-> "SetForegroundColor", color |-> cell.fg]
    /\ cmds[i + 2] = [cmd |-> "SetBackgroundColor", color |-> cell.bg]
    /\ cmds[i + 3] = [cmd |-> "WriteAll", ch |-> cell.ch]

\* cmds[i] moves the cursor to (x, y)
MovesTo(cmds, i, x, y) ==
    i <= Len(cmds) /\ cmds[i] = [cmd |-> "MoveTo", x |-> x, y |-> y]

\* how many commands of a kind
Count(cmds, kind) == Cardinality({ i \in 1..Len(cmds) : cmds[i].cmd = kind })

\* body is a full repaint of grid (hh rows of ww cells): for each row in
\* order, one move to its start, then its cells in column order
FullRepaint(body, grid, ww, hh) ==
    /\ Len(body) = hh * (4 * ww + 1)
    /\ \A y \in 0..(hh - 1) :
         /\ MovesTo(body, y * (4 * ww + 1) + 1, 0, y)
         /\ \A x \in 0..(ww - 1) :
              EmitsCell(body, y * (4 * ww + 1) + 2 + 4 * x, grid[y + 1][x + 1])
    /\ Count(body, "MoveTo") = hh
    /\ Count(body, "WriteAll") = ww * hh

\* the coordinates at which grid differs from old (same shape)
Diffs(old, grid) ==
    UNION { { <<x - 1, y - 1>> : x \in { i \in 1..Len(grid[y]) : grid[y][i] # old[y][i] } } :
            y \in 1..Len(grid) }

\* body is a delta repaint of grid against old: one group of a move to (x, y)
\* and the cell grid[y][x] for each coordinate that differs, nothing else
DeltaRepaint(body, old, grid) ==
    LET D == Diffs(old, grid)
    IN  /\ Len(body) = 5 * Cardinality(D)
        /\ \A i \in 0..(Cardinality(D) - 1) :
             \E d \in D :
                /\ MovesTo(body, 5 * i + 1, d[1], d[2])
                /\ EmitsCell(body, 5 * i + 2, grid[d[2] + 1][d[1] + 1])
        /\ \A d \in D :
             \E i \in 0..(Cardinality(D) - 1) : MovesTo(body, 5 * i + 1, d[1], d[2])

\* a is a strict prefix of b
StrictPrefix(a, b) == Len(a) < Len(b) /\ a = SubSeq(b, 1, Len(a))

-----------------------------------------------------------------------------
(* Statements *)

\* C1: when previous is absent, a successful render emits, for each row
\* y = 0..h-1 in order, one cursor move to (0, y) followed by the w cells of
\* the row in column order: h moves and w*h cells, whatever chars holds.
C1_FullRepaintWhenNoPrevious ==
    [][ (Did("render", "ok") /\ ~IsSome(prev_chars))
          => FullRepaint(Body(out'), chars, w, h) ]_vars

\* a fresh 2x2 display with something drawn was rendered in full
C1_Witness ==
    /\ call.op = "render" /\ call.res = "ok" /\ call.origin = "new"
    /\ w = 2 /\ h = 2
    /\ Drawn(Unwrap(prev_chars))
    /\ FullRepaint(Body(out), Unwrap(prev_chars), 2, 2)

\* C2: when previous is present, a successful render emits a cursor move to
\* (x, y) immediately followed by the cell chars[y][x] for exactly the
\* coordinates where chars[y][x] differs from previous[y][x] in any field, and
\* nothing for the coordinates where they are equal.
C2_DeltaRepaintWhenPrevious ==
    [][ (Did("render", "ok") /\ IsSome(prev_chars))
          => /\ SameShape(Unwrap(prev_chars), chars)
             /\ DeltaRepaint(Body(out'), Unwrap(prev_chars), chars) ]_vars

\* a 2x2 frame was rendered against a previous one: some cells differed and
\* were emitted, the others were equal and were not
C2_Witness ==
    /\ call.op = "render" /\ call.res = "ok" /\ call.origin = "render"
    /\ w = 2 /\ h = 2
    /\ call.ndiff >= 1 /\ call.nsame >= 1
    /\ Len(Body(out)) = 5 * call.ndiff

\* C3: if render succeeds, the caller then puts into chars exactly the frame
\* just rendered and render is called again with no resize in between, the
\* second render emits no cell command and no cursor move.
C3_SameFrameEmitsNothing ==
    [][ (/\ Did("render", "ok")
         /\ baseline.origin = "render"
         /\ baseline.frame = Some(chars))
          => Body(out') = << >> ]_vars

\* a drawn 2x2 frame was rendered a second time and nothing was emitted
C3_Witness ==
    /\ call.op = "render" /\ call.res = "ok" /\ call.origin = "render"
    /\ w = 2 /\ h = 2
    /\ call.ndiff = 0 /\ call.nsame = 4
    /\ Drawn(Unwrap(prev_chars))
    /\ Body(out) = << >>

\* C4: if two consecutive successful renders, with no resize between them,
\* render frames that differ at exactly one coordinate, the second emits
\* exactly one cursor move, to that coordinate, and exactly one cell, the new
\* value, and nothing for any other coordinate.
C4_OneChangeOneCell ==
    [][ (/\ Did("render", "ok")
         /\ baseline.origin = "render"
         /\ SameShape(Unwrap(baseline.frame), chars)
         /\ Cardinality(Diffs(Unwrap(baseline.frame), chars)) = 1)
          => \E d \in Diffs(Unwrap(baseline.frame), chars) :
                /\ Len(Body(out')) = 5
                /\ MovesTo(Body(out'), 1, d[1], d[2])
                /\ EmitsCell(Body(out'), 2, chars[d[2] + 1][d[1] + 1]) ]_vars

\* a 2x2 frame differing from the one before at one coordinate was rendered:
\* one move and one cell
C4_Witness ==
    /\ call.op = "render" /\ call.res = "ok" /\ call.origin = "render"
    /\ w = 2 /\ h = 2
    /\ call.ndiff = 1 /\ call.nsame = 3
    /\ Count(out, "MoveTo") = 1 /\ Count(out, "WriteAll") = 1

\* C5: after resize(w', h'), whatever came before and whatever the new
\* dimensions, the next render is a full repaint of all w'*h' cells, also when
\* the new chars coincides with the old previous where they overlap.
C5_FullRepaintAfterResize ==
    [][ (Did("render", "ok") /\ baseline.origin = "resize")
          => FullRepaint(Body(out'), chars, w, h) ]_vars

\* a rendered display was resized to 2x2 and rendered: its four cells, all
\* equal to the cells of the discarded frame, were emitted again
C5_Witness ==
    /\ call.op = "render" /\ call.res = "ok" /\ call.origin = "resize"
    /\ w = 2 /\ h = 2
    /\ call.ndiff = 0 /\ call.nsame = 4
    /\ FullRepaint(Body(out), Unwrap(prev_chars), 2, 2)

\* C6: if a sink operation inside render fails, render issues no further sink
\* command, returns the error, and leaves previous, chars, w and h as they
\* were: no rotation, chars is not reset.
C6_FailedRenderChangesNothing ==
    [][ Did("render", "err")
          => /\ prev_chars' = prev_chars
             /\ chars' = chars
             /\ w' = w /\ h' = h
             /\ StrictPrefix(out', render_cmds(prev_chars, chars)) ]_vars

\* the flush of a delta repaint of one changed cell failed
C6_Witness ==
    /\ call.op = "render" /\ call.res = "err" /\ call.origin = "render"
    /\ call.ndiff = 1
    /\ Len(out) = 5
    /\ Drawn(chars)

\* C7: after a successful render previous is present and equals the content
\* chars had when render was called, and chars is all empty cells with the
\* same w and h.
C7_RotationOnSuccess ==
    [][ Did("render", "ok")
          => /\ prev_chars' = Some(chars)
             /\ Filled(chars', w, h, EmptyCell)
             /\ w' = w /\ h' = h ]_vars

\* a drawn 2x2 frame was rendered over an earlier frame: it is now previous
\* and chars is empty
C7_Witness ==
    /\ call.op = "render" /\ call.res = "ok" /\ call.origin = "render"
    /\ w = 2 /\ h = 2
    /\ Drawn(Unwrap(prev_chars))
    /\ Filled(chars, 2, 2, EmptyCell)

\* C8: write(x, y, cell) with x < w and y < h sets chars[y][x] to cell and
\* changes nothing else: the other cells, previous, w and h are unchanged and
\* no sink command is issued.
C8_WriteInBounds ==
    [][ (call'.op = "write" /\ call'.args[1] < w /\ call'.args[2] < h)
          => /\ call'.res = "ok"
             /\ SameShape(chars', chars)
             /\ \A y \in 1..Len(chars) : \A x \in 1..Len(chars[y]) :
                  chars'[y][x] = IF x = call'.args[1] + 1 /\ y = call'.args[2] + 1
                                 THEN call'.args[3]
                                 ELSE chars[y][x]
             /\ prev_chars' = prev_chars
             /\ w' = w /\ h' = h
             /\ out' = << >> ]_vars

\* a cell was written at (1, 0) of a 2x2 display whose other cells are not
\* empty, a previous frame being present
C8_Witness ==
    /\ call.op = "write" /\ call.res = "ok"
    /\ w = 2 /\ h = 2
    /\ call.args[1] = 1 /\ call.args[2] = 0
    /\ chars[1][2] = call.args[3]
    /\ chars[2][1] = EmptyCellOn("Red")
    /\ IsSome(prev_chars)

\* C9: write(x, y, cell) with x >= w or y >= h (so every write on a display
\* with w = 0 or h = 0) fails with an out-of-bounds condition and modifies no
\* cell of chars or previous, nor w or h.
C9_WriteOutOfBounds ==
    [][ (call'.op = "write" /\ (call'.args[1] >= w \/ call'.args[2] >= h))
          => /\ call'.res = "panic"
             /\ chars' = chars
             /\ prev_chars' = prev_chars
             /\ w' = w /\ h' = h ]_vars

\* a write one column past the last one of a drawn 2x2 display failed
C9_Witness ==
    /\ call.op = "write" /\ call.res = "panic"
    /\ w = 2 /\ h = 2
    /\ call.args[1] = 2 /\ call.args[2] < 2
    /\ Drawn(chars)

\* C10: clear() sets every cell of chars to the default empty cell and
\* clear_colored(c) to the empty cell of background c; both leave previous, w
\* and h unchanged and issue no sink command.
C10_Clear ==
    [][ /\ call'.op = "clear"
          => /\ Filled(chars', w, h, EmptyCell)
             /\ prev_chars' = prev_chars /\ w' = w /\ h' = h /\ out' = << >>
        /\ call'.op = "clear_colored"
          => /\ Filled(chars', w, h, EmptyCellOn(call'.args[1]))
             /\ prev_chars' = prev_chars /\ w' = w /\ h' = h /\ out' = << >> ]_vars

\* a 2x2 display holding a written cell was cleared to red, a different
\* previous frame being present
C10_Witness ==
    /\ call.op = "clear_colored" /\ call.args = << "Red" >>
    /\ w = 2 /\ h = 2
    /\ nwrites = 1
    /\ Filled(chars, 2, 2, EmptyCellOn("Red"))
    /\ IsSome(prev_chars) /\ Unwrap(prev_chars) # chars

\* every cell that cmds emit in full is cell
EmitsOnly(cmds, cell) ==
    /\ \A i \in 1..Len(cmds) :
         cmds[i].cmd = "WriteAll" => i > 3 /\ EmitsCell(cmds, i - 3, cell)
    /\ \A i \in 1..Len(cmds) :
         cmds[i].cmd = "SetAttribute" => EmitsCell(cmds, i, cell)

\* C11: a successful render directly after clear_colored(c) emits no cell
\* but the empty cell of background c (space, default foreground, reset
\* attribute), in a full repaint and in a delta repaint, and leaves previous
\* filled with that cell.
C11_ClearColoredThenRender ==
    [][ (call.op = "clear_colored" /\ Did("render", "ok"))
          => /\ EmitsOnly(out', EmptyCellOn(call.args[1]))
             /\ IsSome(prev_chars')
             /\ Filled(Unwrap(prev_chars'), w, h, EmptyCellOn(call.args[1])) ]_vars

\* a 2x2 display never written to was cleared to red and rendered as a delta
\* against a frame of another background: four red empty cells went out
C11_Witness ==
    /\ call.op = "render" /\ call.res = "ok" /\ call.origin = "render"
    /\ nwrites = 0
    /\ w = 2 /\ h = 2
    /\ Filled(Unwrap(prev_chars), 2, 2, EmptyCellOn("Red"))
    /\ Count(out, "WriteAll") = 4
    /\ EmitsOnly(out, EmptyCellOn("Red"))

\* C12: resize(w, h) sets w and h to its arguments, makes chars an all-empty
\* buffer of h rows by w columns whatever was written before, sets previous
\* to absent and issues no sink command.
C12_Resize ==
    [][ call'.op = "resize"
          => /\ w' = call'.args[1] /\ h' = call'.args[2]
             /\ Filled(chars', call'.args[1], call'.args[2], EmptyCell)
             /\ prev_chars' = None
             /\ out' = << >> ]_vars

\* a display that had rendered a frame with a written cell was resized to
\* 2 columns by 1 row: the frame is gone, chars is one row of two empty cells
C12_Witness ==
    /\ call.op = "resize" /\ call.args = <<2, 1>>
    /\ call.origin = "render" /\ call.ndiff >= 1
    /\ nwrites = 1
    /\ w = 2 /\ h = 1
    /\ Len(chars) = 1 /\ Len(chars[1]) = 2
    /\ prev_chars = None

\* C13: a successful render flushes the sink exactly once, after every
\* cursor move and cell command of the call and never between cells, in a
\* full repaint and in a delta repaint, one that emits no cell included.
C13_OneFlushAtTheEnd ==
    [][ Did("render", "ok")
          => /\ Count(out', "Flush") = 1
             /\ out'[Len(out')] = Flush ]_vars

\* a full repaint of a 2x2 display: two moves and four cells, then the flush
C13_Witness ==
    /\ call.op = "render" /\ call.res = "ok" /\ call.origin # "render"
    /\ w = 2 /\ h = 2
    /\ Count(out, "MoveTo") = 2 /\ Count(out, "WriteAll") = 4
    /\ Len(out) = 19 /\ out[19] = Flush

\* the cells of a grid
CellsOf(grid) == UNION { { grid[y][x] : x \in 1..Len(grid[y]) } : y \in 1..Len(grid) }

\* cmds[i..] is the emission of cell, whole or cut short by the end of cmds
EmitsCellOrLess(cmds, i, cell) ==
    /\ cmds[i] = [cmd |-> "SetAttribute", attr |-> cell.attr]
    /\ i + 1 <= Len(cmds) => cmds[i + 1] = [cmd |-> "SetForegroundColor", color |-> cell.fg]
    /\ i + 2 <= Len(cmds) => cmds[i + 2] = [cmd |-> "SetBackgroundColor", color |-> cell.bg]
    /\ i + 3 <= Len(cmds) => cmds[i + 3] = [cmd |-> "WriteAll", ch |-> cell.ch]

\* the command that comes directly before a command of a kind, within a cell
Before(kind) ==
    CASE kind = "SetForegroundColor" -> "SetAttribute"
      [] kind = "SetBackgroundColor" -> "SetForegroundColor"
      [] kind = "WriteAll" -> "SetBackgroundColor"

\* C14: a cell reaches the sink as set-attribute(attr), set-foreground(fg),
\* set-background(bg) and the character byte, in this order and of one cell
\* of chars; when the sequence stops short, nothing more was sent and the
\* call returned the error.
C14_CellCommandOrder ==
    [][ call'.op = "render"
          => /\ \A i \in 1..Len(out') :
                  out'[i].cmd = "SetAttribute"
                    => /\ \E cell \in CellsOf(chars) : EmitsCellOrLess(out', i, cell)
                       /\ i + 3 > Len(out') => call'.res = "err"
             /\ \A i \in 1..Len(out') :
                  out'[i].cmd \in {"SetForegroundColor", "SetBackgroundColor", "WriteAll"}
                    => i > 1 /\ out'[i - 1].cmd = Before(out'[i].cmd) ]_vars

\* the sink failed at the background colour of a written red cell: the
\* attribute and the foreground colour went out, nothing after them, and the
\* render returned the error
C14_Witness ==
    /\ call.op = "render" /\ call.res = "err"
    /\ nwrites = 1
    /\ Len(out) = 3
    /\ out[2].cmd = "SetAttribute"
    /\ out[3] = [cmd |-> "SetForegroundColor", color |-> "Red"]

\* C15: clear() directly after clear(), and clear_colored(c) directly after
\* clear_colored(c) with the same c, leaves chars as the first call left it:
\* however often the call is repeated, chars is what a single call makes it.
C15_ClearIdempotent ==
    [][ ( /\ call'.op \in {"clear", "clear_colored"}
          /\ call.op = call'.op /\ call.args = call'.args )
          => chars' = chars ]_vars

\* on a 2x2 display holding a written cell, clear_colored(Red) was called
\* twice in a row
C15_Witness ==
    /\ call.op = "clear_colored" /\ call.args = << "Red" >> /\ call.again
    /\ nwrites = 1
    /\ w = 2 /\ h = 2
    /\ Filled(chars, 2, 2, EmptyCellOn("Red"))

\* grid has hh rows of exactly ww cells
Shaped(grid, ww, hh) == Len(grid) = hh /\ \A y \in 1..hh : Len(grid[y]) = ww

\* C16: in every reachable state chars has exactly h rows of exactly w
\* cells, and so has previous whenever it is present; hence no render has
\* indexed previous outside its bounds.
C16_Dimensions ==
    /\ Shaped(chars, w, h)
    /\ IsSome(prev_chars) => Shaped(Unwrap(prev_chars), w, h)
    /\ call.op = "render" => call.res # "panic"

\* a delta repaint of a 2x2 display went through with a cell changed,
\* previous and chars both 2 rows of 2 cells
C16_Witness ==
    /\ call.op = "render" /\ call.res = "ok" /\ call.origin = "render"
    /\ call.ndiff >= 1
    /\ w = 2 /\ h = 2
    /\ IsSome(prev_chars)
    /\ Shaped(Unwrap(prev_chars), 2, 2) /\ Shaped(chars, 2, 2)

\* at every coordinate of the w by h grid the sink shows the cell of grid
Shows(grid) ==
    \A y \in 0..(h - 1) : \A x \in 0..(w - 1) : shown[<<x, y>>] = grid[y + 1][x + 1]

\* C17: whenever previous is present it is what was last emitted to the
\* sink: at every coordinate (x, y) of the grid, the cell most recently sent
\* to the sink is previous[y][x], also after a render that failed with some
\* of its commands accepted.
C17_PreviousIsWhatWasEmitted ==
    IsSome(prev_chars) => Shows(Unwrap(prev_chars))

\* the all-empty frame of ww columns by hh rows
Blank(ww, hh) == [y \in 1..hh |-> [x \in 1..ww |-> EmptyCell]]

\* C18: a render directly after a successful render finds chars all-empty
\* and diffs it against the previous frame: it emits one cursor move and one
\* default empty cell for each coordinate whose previous cell was not the
\* default empty cell, nothing elsewhere, and the frame it leaves as
\* previous is all-empty: no content is carried over.
C18_ImmediateMode ==
    [][ (call.op = "render" /\ call.res = "ok" /\ Did("render", "ok"))
          => /\ chars = Blank(w, h)
             /\ DeltaRepaint(Body(out'), Unwrap(prev_chars), Blank(w, h))
             /\ prev_chars' = Some(Blank(w, h)) ]_vars

\* a 2x2 display was rendered twice in a row after one write: the second
\* render moved to the written cell and emitted the default empty cell there
C18_Witness ==
    /\ call.op = "render" /\ call.res = "ok" /\ call.again
    /\ nwrites = 1
    /\ w = 2 /\ h = 2
    /\ call.ndiff = 1 /\ call.nsame = 3
    /\ Len(out) = 6
    /\ out[1].cmd = "MoveTo"
    /\ EmitsCell(out, 2, EmptyCell)

\* C19: with a sink that never fails, directly after each render the sink
\* shows, at every coordinate of the w by h grid, the frame just rendered,
\* which is previous: a delta repaint leaves no stale cell on screen.
C19_ScreenIsTheFrameRendered ==
    call.op = "render"
      => /\ call.res = "ok"
         /\ IsSome(prev_chars)
         /\ Shows(Unwrap(prev_chars))

\* a delta repaint of a 2x2 display changed one cell and left three as they
\* were; the sink shows the new frame, written cell included
C19_Witness ==
    /\ call.op = "render" /\ call.res = "ok" /\ call.origin = "render"
    /\ call.ndiff = 1 /\ call.nsame = 3
    /\ w = 2 /\ h = 2
    /\ Drawn(Unwrap(prev_chars))
    /\ Shows(Unwrap(prev_chars))

\* C20: when a render was cut short by the sink after some of its commands
\* were accepted and, with no resize since, a render succeeds, that render
\* is a delta repaint against the frame rendered successfully last, or a
\* full repaint if there is none, and after it the sink shows the frame just
\* rendered at every coordinate of the grid.
C20_RetryAfterFailure ==
    [][ (baseline.cut /\ Did("render", "ok"))
          => /\ IF IsSome(prev_chars)
                THEN /\ prev_chars = baseline.frame
                     /\ DeltaRepaint(Body(out'), Unwrap(prev_chars), chars)
                ELSE FullRepaint(Body(out'), chars, w, h)
             /\ \A y \in 0..(h - 1) : \A x \in 0..(w - 1) :
                  shown'[<<x, y>>] = chars[y + 1][x + 1] ]_vars

====
